---- MODULE Spec2Model ----
(***************************************************************************)
(* Model of the ledger engine of oxidized-transactions (src/main.rs):      *)
(* main's record loop, handle_record and the five handlers, over the two   *)
(* HashMaps `accounts` and `transaction_status`.                           *)
(*                                                                         *)
(* A HashMap is a function whose DOMAIN is the set of keys present.        *)
(* Amounts (f64 in the source) are exact integers.  An unwrap() of None    *)
(* aborts the process: it sets `panicked`, after which no record is read.  *)
(***************************************************************************)
EXTENDS Integers, FiniteSets, TLC

\* ---- bounds of the model ------------------------------------------------
\* rows read from the file, and the largest magnitude of an amount cell
MaxRecords == 4
MaxAmount == 1

\* the ids in the rows: 0 (what DefaultOnError reads from an unreadable cell,
\* rejected by handle_record) and two valid ids
Clients == {0, 1, 2}
TxIds == {0, 1, 2}
Amounts == (0 - MaxAmount)..MaxAmount

\* the strings the type column takes here: the five kinds, one of them also
\* capitalised, and "" (the DefaultOnError value of an unreadable cell)
TransTypes == {"deposit", "withdrawal", "dispute", "resolve", "chargeback", "Dispute", ""}

\* str::to_lowercase on the strings of TransTypes
to_lowercase(s) == IF s = "Dispute" THEN "dispute" ELSE s

\* struct Transaction: one parsed input row.  Rows of the kinds that carry
\* no amount have an empty amount cell, which DefaultOnError reads as 0.0.
Transaction ==
    [trans_type : {"deposit", "withdrawal"}, client : Clients, id : TxIds, amount : Amounts]
    \cup [trans_type : TransTypes \ {"deposit", "withdrawal"}, client : Clients, id : TxIds, amount : {0}]

\* ---- HashMap operations ---------------------------------------------------
EmptyMap == [k \in {} |-> 0]

\* HashMap::contains / get(..).is_some()
Has(m, k) == k \in DOMAIN m

\* HashMap::insert: adds the key or overwrites its value
Insert(m, k, v) == [x \in (DOMAIN m) \cup {k} |-> IF x = k THEN v ELSE m[x]]

\* HashMap::remove
Remove(m, k) == [x \in (DOMAIN m) \ {k} |-> m[x]]

\* ---- structs ----------------------------------------------------------------
AccountInfo(available, held, total, locked) ==
    [available |-> available, held |-> held, total |-> total, locked |-> locked]

TransactionStatus(amount, deposit, dispute) ==
    [amount |-> amount, deposit |-> deposit, dispute |-> dispute]

\* the pair of maps a handler leaves behind, and whether it panicked
Outcome(a, t, p) == [accounts |-> a, transaction_status |-> t, panicked |-> p]

\* ---- lookup predicates (trans_status is the client's sub-map, if any) -------
\* `sub` is the pair <<present, map>> for Option<&HashMap<u32, TransactionStatus>>
SubMap_keyed_by_tx_alone(transaction_status, client) ==
    LET own == IF Has(transaction_status, client) THEN transaction_status[client] ELSE EmptyMap
        all == UNION {DOMAIN transaction_status[k] : k \in DOMAIN transaction_status}
    IN [some |-> transaction_status # EmptyMap,
        map |-> [t \in all |-> IF Has(own, t) THEN own[t]
                               ELSE transaction_status[CHOOSE k \in DOMAIN transaction_status :
                                                           Has(transaction_status[k], t)][t]]]

SubMap(transaction_status, client) ==
    IF Has(transaction_status, client)
    THEN [some |-> TRUE, map |-> transaction_status[client]]
    ELSE [some |-> FALSE, map |-> EmptyMap]

does_transaction_exist(trans_id, trans_status) ==
    trans_status.some /\ Has(trans_status.map, trans_id)

does_transaction_exist_ignoring_dispute(trans_id, trans_status) ==
    does_transaction_exist(trans_id, trans_status)

does_transaction_exist_with_any_flag(trans_id, trans_status) ==
    does_transaction_exist(trans_id, trans_status)

does_transaction_exist_with_dispute(trans_id, trans_status) ==
    does_transaction_exist(trans_id, trans_status) /\ trans_status.map[trans_id].dispute

does_any_transaction_exist_with_dispute(trans_id, trans_status) ==
    does_transaction_exist_with_dispute(trans_id, trans_status)

does_deposit_transaction_exist_with_dispute(trans_id, trans_status) ==
    does_transaction_exist_with_dispute(trans_id, trans_status) /\ trans_status.map[trans_id].deposit

does_transaction_exist_without_dispute(trans_id, trans_status) ==
    does_transaction_exist(trans_id, trans_status) /\ ~trans_status.map[trans_id].dispute

is_client_locked_never(accounts, client) == FALSE

is_client_locked(accounts, client) ==
    IF Has(accounts, client) THEN accounts[client].locked ELSE FALSE

\* ---- handlers -----------------------------------------------------------------
\* `amount == 0.0` of handle_record: such a deposit or withdrawal is invalid
is_nonpositive_amount(amount) == amount <= 0

is_zero_amount(amount) == amount = 0

\* the registry entries a deposit and a withdrawal record
deposit_status(amount) == TransactionStatus(amount, TRUE, FALSE)

withdrawal_status_as_deposit(amount) == TransactionStatus(amount, TRUE, FALSE)

withdrawal_status(amount) == TransactionStatus(amount, FALSE, FALSE)

\* the AccountInfo each handler builds from the current account
deposit_new_account(amount) == AccountInfo(amount, 0, amount, FALSE)

deposit_account_dropping_held(current_account, amount) ==
    AccountInfo(current_account.available + amount,
                current_account.held,
                current_account.available + amount,
                FALSE)

deposit_account(current_account, amount) ==
    AccountInfo(current_account.available + amount,
                current_account.held,
                current_account.held + current_account.available + amount,
                FALSE)

has_sufficient_funds_strict(current_account, amount) == current_account.available - amount > 0

has_sufficient_funds_always(current_account, amount) == TRUE

has_sufficient_funds(current_account, amount) == current_account.available - amount >= 0

withdrawal_account(current_account, amount) ==
    AccountInfo(current_account.available - amount,
                current_account.held,
                current_account.held + current_account.available - amount,
                FALSE)

dispute_account_held_only(current_account, dispute_amount) ==
    AccountInfo(current_account.available,
                current_account.held + dispute_amount,
                current_account.held + current_account.available,
                FALSE)

dispute_account(current_account, dispute_amount) ==
    AccountInfo(current_account.available - dispute_amount,
                current_account.held + dispute_amount,
                current_account.held + current_account.available,
                FALSE)

resolve_account_adding_to_total(current_account, dispute_amount) ==
    AccountInfo(current_account.available + dispute_amount,
                current_account.held - dispute_amount,
                current_account.held + current_account.available + dispute_amount,
                FALSE)

resolve_account(current_account, dispute_amount) ==
    AccountInfo(current_account.available + dispute_amount,
                current_account.held - dispute_amount,
                current_account.held + current_account.available,
                FALSE)

chargeback_account_unlocked(current_account, dispute_amount) ==
    AccountInfo(current_account.available,
                current_account.held - dispute_amount,
                current_account.held + current_account.available - dispute_amount,
                FALSE)

chargeback_account_total_kept(current_account, dispute_amount) ==
    AccountInfo(current_account.available,
                current_account.held - dispute_amount,
                current_account.held + current_account.available,
                TRUE)

chargeback_account(current_account, dispute_amount) ==
    AccountInfo(current_account.available,
                current_account.held - dispute_amount,
                current_account.held + current_account.available - dispute_amount,
                TRUE)

\* the entry dispute and resolve write back: same amount and deposit flag
updated_status(entry) == TransactionStatus(entry.amount, entry.deposit, TRUE)

\* the entry resolve writes back (lines 157-158): the dispute flag stays true
resolved_status_cleared(entry) == TransactionStatus(entry.amount, entry.deposit, FALSE)

resolved_status(entry) == TransactionStatus(entry.amount, entry.deposit, TRUE)

handle_deposit_without_new_map(accounts, transactions, amount, client, trans_id) ==
    LET trans_status == deposit_status(amount)
        accounts2 == IF ~Has(accounts, client)
                     THEN Insert(accounts, client, deposit_new_account(amount))
                     ELSE Insert(accounts, client, deposit_account(accounts[client], amount))
        transactions2 == IF ~Has(transactions, client)
                         THEN transactions
                         ELSE Insert(transactions, client, Insert(transactions[client], trans_id, trans_status))
    IN Outcome(accounts2, transactions2, FALSE)

handle_deposit(accounts, transactions, amount, client, trans_id) ==
    LET trans_status == deposit_status(amount)
        accounts2 == IF ~Has(accounts, client)
                     THEN Insert(accounts, client, deposit_new_account(amount))
                     ELSE Insert(accounts, client, deposit_account(accounts[client], amount))
        transactions2 == IF ~Has(transactions, client)
                         THEN Insert(transactions, client, Insert(EmptyMap, trans_id, trans_status))
                         ELSE Insert(transactions, client, Insert(transactions[client], trans_id, trans_status))
    IN Outcome(accounts2, transactions2, FALSE)

handle_withdrawal_recording_always(accounts, transactions, amount, client, trans_id) ==
    LET trans_status == withdrawal_status(amount)
    IN IF Has(accounts, client)
       THEN LET accounts2 == IF has_sufficient_funds(accounts[client], amount)
                             THEN Insert(accounts, client, withdrawal_account(accounts[client], amount))
                             ELSE accounts
            IN IF Has(transactions, client)
               THEN Outcome(accounts2,
                            Insert(transactions, client, Insert(transactions[client], trans_id, trans_status)),
                            FALSE)
               ELSE Outcome(accounts2, transactions, TRUE)
       ELSE Outcome(accounts, transactions, FALSE)

handle_withdrawal(accounts, transactions, amount, client, trans_id) ==
    LET trans_status == withdrawal_status(amount)
    IN IF Has(accounts, client) /\ has_sufficient_funds(accounts[client], amount)
       THEN LET accounts2 == Insert(accounts, client, withdrawal_account(accounts[client], amount))
            IN IF Has(transactions, client)
               THEN Outcome(accounts2,
                            Insert(transactions, client, Insert(transactions[client], trans_id, trans_status)),
                            FALSE)
               ELSE Outcome(accounts2, transactions, TRUE)   \* get_mut(client).unwrap() on None
       ELSE Outcome(accounts, transactions, FALSE)

handle_dispute(accounts, transaction_status, client, trans_id) ==
    LET trans_status == SubMap(transaction_status, client)
    IN IF does_transaction_exist_without_dispute(trans_id, trans_status)
       THEN IF ~Has(accounts, client)
            THEN Outcome(accounts, transaction_status, TRUE)   \* accounts.get(client).unwrap() on None
            ELSE LET entry == trans_status.map[trans_id]
                 IN Outcome(Insert(accounts, client, dispute_account(accounts[client], entry.amount)),
                            Insert(transaction_status, client,
                                   Insert(transaction_status[client], trans_id, updated_status(entry))),
                            FALSE)
       ELSE Outcome(accounts, transaction_status, FALSE)

handle_resolve(accounts, transaction_status, client, trans_id) ==
    LET trans_status == SubMap(transaction_status, client)
    IN IF does_transaction_exist_with_dispute(trans_id, trans_status)
       THEN IF ~Has(accounts, client)
            THEN Outcome(accounts, transaction_status, TRUE)   \* accounts.get(client).unwrap() on None
            ELSE LET entry == trans_status.map[trans_id]
                 IN Outcome(Insert(accounts, client, resolve_account(accounts[client], entry.amount)),
                            Insert(transaction_status, client,
                                   Insert(transaction_status[client], trans_id, resolved_status(entry))),
                            FALSE)
       ELSE Outcome(accounts, transaction_status, FALSE)

handle_chargeback_clearing_registry(accounts, transaction_status, client, trans_id) ==
    LET trans_status == SubMap(transaction_status, client)
    IN IF does_deposit_transaction_exist_with_dispute(trans_id, trans_status)
       THEN IF ~Has(accounts, client)
            THEN Outcome(accounts, transaction_status, TRUE)
            ELSE LET entry == trans_status.map[trans_id]
                 IN Outcome(Insert(accounts, client, chargeback_account(accounts[client], entry.amount)),
                            EmptyMap,
                            FALSE)
       ELSE Outcome(accounts, transaction_status, FALSE)

handle_chargeback_removing_account(accounts, transaction_status, client, trans_id) ==
    LET trans_status == SubMap(transaction_status, client)
    IN IF does_deposit_transaction_exist_with_dispute(trans_id, trans_status)
       THEN IF ~Has(accounts, client)
            THEN Outcome(accounts, transaction_status, TRUE)
            ELSE Outcome(Remove(accounts, client), Remove(transaction_status, client), FALSE)
       ELSE Outcome(accounts, transaction_status, FALSE)

handle_chargeback(accounts, transaction_status, client, trans_id) ==
    LET trans_status == SubMap(transaction_status, client)
    IN IF does_deposit_transaction_exist_with_dispute(trans_id, trans_status)
       THEN IF ~Has(accounts, client)
            THEN Outcome(accounts, transaction_status, TRUE)   \* accounts.get(client).unwrap() on None
            ELSE LET entry == trans_status.map[trans_id]
                 IN Outcome(Insert(accounts, client, chargeback_account(accounts[client], entry.amount)),
                            Remove(transaction_status, client),
                            FALSE)
       ELSE Outcome(accounts, transaction_status, FALSE)

is_valid_record_any_tx(accounts, transaction) ==
    transaction.client > 0 /\ ~is_client_locked(accounts, transaction.client)

\* the validator of handle_record (line 86)
is_valid_record(accounts, transaction) ==
    transaction.client > 0 /\ transaction.id > 0 /\ ~is_client_locked(accounts, transaction.client)

handle_record(accounts, transaction_status, transaction) ==
    LET amount == transaction.amount
        client == transaction.client
        trans_type == to_lowercase(transaction.trans_type)
        trans_id == transaction.id
        dropped == Outcome(accounts, transaction_status, FALSE)
    IN IF is_valid_record(accounts, transaction)
       THEN CASE trans_type = "deposit" ->
                     IF is_zero_amount(amount) THEN dropped
                     ELSE handle_deposit(accounts, transaction_status, amount, client, trans_id)
              [] trans_type = "withdrawal" ->
                     IF is_zero_amount(amount) THEN dropped
                     ELSE handle_withdrawal(accounts, transaction_status, amount, client, trans_id)
              [] trans_type = "dispute" -> handle_dispute(accounts, transaction_status, client, trans_id)
              [] trans_type = "resolve" -> handle_resolve(accounts, transaction_status, client, trans_id)
              [] trans_type = "chargeback" -> handle_chargeback(accounts, transaction_status, client, trans_id)
              [] OTHER -> dropped
       ELSE dropped

\* ---- history of the lifecycle of each (client, tx id) ------------------------
\* `resolved` is the set of pairs <<client, tx id>> whose entry has been
\* disputed and then resolved, and not settled anew since.  The row t leaves
\* it as follows: a resolve that passes handle_resolve's guard adds the pair,
\* a deposit or withdrawal that writes the entry and a dispute that passes
\* handle_dispute's guard remove it, a chargeback that passes
\* handle_chargeback's guard removes every pair of the client.
resolved_after(accounts, transaction_status, resolved, t) ==
    LET client == t.client
        trans_id == t.id
        kind == to_lowercase(t.trans_type)
        pair == <<client, trans_id>>
        trans_status == SubMap(transaction_status, client)
    IN IF ~is_valid_record(accounts, t) THEN resolved
       ELSE CASE kind = "resolve" /\ does_transaction_exist_with_dispute(trans_id, trans_status) ->
                     resolved \cup {pair}
              [] kind = "dispute" /\ does_transaction_exist_without_dispute(trans_id, trans_status) ->
                     resolved \ {pair}
              [] kind = "chargeback" /\ does_deposit_transaction_exist_with_dispute(trans_id, trans_status) ->
                     {q \in resolved : q[1] # client}
              [] kind = "deposit" /\ ~is_zero_amount(t.amount) ->
                     resolved \ {pair}
              [] kind = "withdrawal" /\ ~is_zero_amount(t.amount) /\ Has(accounts, client)
                                     /\ has_sufficient_funds(accounts[client], t.amount) ->
                     resolved \ {pair}
              [] OTHER -> resolved

\* History of the settlements: net_settled[client] is the sum of the amounts
\* of the deposits handle_deposit has applied for the client minus the sum of
\* the amounts of the withdrawals handle_withdrawal has applied.  The row t
\* adds its amount when it reaches handle_deposit, and takes it off when it
\* reaches handle_withdrawal and passes its two guards.
net_settled_after(accounts, net_settled, t) ==
    LET client == t.client
        kind == to_lowercase(t.trans_type)
    IN IF ~is_valid_record(accounts, t) \/ client \notin DOMAIN net_settled THEN net_settled
       ELSE CASE kind = "deposit" /\ ~is_zero_amount(t.amount) ->
                     [net_settled EXCEPT ![client] = @ + t.amount]
              [] kind = "withdrawal" /\ ~is_zero_amount(t.amount) /\ Has(accounts, client)
                                     /\ has_sufficient_funds(accounts[client], t.amount) ->
                     [net_settled EXCEPT ![client] = @ - t.amount]
              [] OTHER -> net_settled

\* History of the chargebacks: charged_back[client] is the amount of the
\* transaction handle_chargeback has charged back for the client (0 if none).
charged_back_after(accounts, transaction_status, charged_back, t) ==
    LET client == t.client
        trans_id == t.id
        kind == to_lowercase(t.trans_type)
        trans_status == SubMap(transaction_status, client)
    IN IF /\ is_valid_record(accounts, t)
          /\ kind = "chargeback"
          /\ does_deposit_transaction_exist_with_dispute(trans_id, trans_status)
       THEN [charged_back EXCEPT ![client] = trans_status.map[trans_id].amount]
       ELSE charged_back

\* ---- the state machine: main's loop over the rows ---------------------------
VARIABLES
    accounts,            \* HashMap<u16, AccountInfo>
    transaction_status,  \* HashMap<u16, HashMap<u32, TransactionStatus>>
    panicked,            \* an unwrap() of None has aborted the run
    processed,           \* number of rows consumed so far
    pc,                  \* "read": before the next row; "handled": handle_record has returned
    transaction,         \* at "handled": the row just handled
    prev_accounts,       \* at "handled": `accounts` as handle_record received it
    prev_status,         \* at "handled": `transaction_status` as handle_record received it
    resolved,            \* history: the pairs <<client, tx id>> disputed and then resolved
    prev_resolved,       \* at "handled": `resolved` as it was before the row
    used_tx,             \* history of a stream of fresh rows: the tx ids its deposits
                         \* and withdrawals have carried so far
    net_settled,         \* history: per client, applied deposits minus applied withdrawals
    charged_back         \* history: per client, the amount charged back

vars == <<accounts, transaction_status, panicked, processed, pc, transaction,
          prev_accounts, prev_status, resolved, prev_resolved, used_tx,
          net_settled, charged_back>>

NoRow == [trans_type |-> "", client |-> 0, id |-> 0, amount |-> 0]

Init ==
    /\ accounts = EmptyMap
    /\ transaction_status = EmptyMap
    /\ panicked = FALSE
    /\ processed = 0
    /\ pc = "read"
    /\ transaction = NoRow
    /\ prev_accounts = EmptyMap
    /\ prev_status = EmptyMap
    /\ resolved = {}
    /\ prev_resolved = {}
    /\ used_tx = {}
    /\ net_settled = [c \in Clients |-> 0]
    /\ charged_back = [c \in Clients |-> 0]

\* the body of `for result in rdr.deserialize()` on the row t: the row is
\* deserialized and handle_record runs to its end
Handle(t) ==
    /\ pc = "read"
    /\ ~panicked
    /\ processed < MaxRecords
    /\ LET out == handle_record(accounts, transaction_status, t)
       IN /\ accounts' = out.accounts
          /\ transaction_status' = out.transaction_status
          /\ panicked' = out.panicked
    /\ processed' = processed + 1
    /\ pc' = "handled"
    /\ transaction' = t
    /\ prev_accounts' = accounts
    /\ prev_status' = transaction_status
    /\ resolved' = resolved_after(accounts, transaction_status, resolved, t)
    /\ prev_resolved' = resolved
    /\ net_settled' = net_settled_after(accounts, net_settled, t)
    /\ charged_back' = charged_back_after(accounts, transaction_status, charged_back, t)

\* any row of the input file
Feed(t) == Handle(t) /\ UNCHANGED used_tx

RowsOf(kind) == {t \in Transaction : to_lowercase(t.trans_type) = kind}

FeedDeposit == \E t \in RowsOf("deposit") : Feed(t)
FeedWithdrawal == \E t \in RowsOf("withdrawal") : Feed(t)
FeedDispute == \E t \in RowsOf("dispute") : Feed(t)
FeedResolve == \E t \in RowsOf("resolve") : Feed(t)
FeedChargeback == \E t \in RowsOf("chargeback") : Feed(t)
FeedUnknown == \E t \in RowsOf("") : Feed(t)

\* the loop comes back to the iterator: the row (moved into handle_record) is
\* gone and only the two maps are carried to the next iteration
NextRow ==
    /\ pc = "handled"
    /\ pc' = "read"
    /\ transaction' = NoRow
    /\ prev_accounts' = EmptyMap
    /\ prev_status' = EmptyMap
    /\ prev_resolved' = {}
    /\ UNCHANGED <<accounts, transaction_status, panicked, processed, resolved, used_tx,
                   net_settled, charged_back>>

Next ==
    \/ FeedDeposit
    \/ FeedWithdrawal
    \/ FeedDispute
    \/ FeedResolve
    \/ FeedChargeback
    \/ FeedUnknown
    \/ NextRow

Spec == Init /\ [][Next]_vars

\* ---- the same loop over a well-formed input file ---------------------------
\* The rows of a file in which every deposit and withdrawal has a positive
\* amount and a tx id that no earlier deposit or withdrawal of the file has
\* carried; disputes, resolves and chargebacks refer to any tx id.
FeedFresh(t) ==
    /\ t.amount > 0
    /\ t.id \notin used_tx
    /\ Handle(t)
    /\ used_tx' = used_tx \cup {t.id}

FeedFreshDeposit == \E t \in RowsOf("deposit") : FeedFresh(t)
FeedFreshWithdrawal == \E t \in RowsOf("withdrawal") : FeedFresh(t)

NextPositive ==
    \/ FeedFreshDeposit
    \/ FeedFreshWithdrawal
    \/ FeedDispute
    \/ FeedResolve
    \/ FeedChargeback
    \/ FeedUnknown
    \/ NextRow

SpecPositive == Init /\ [][NextPositive]_vars

TypeOK ==
    /\ DOMAIN accounts \subseteq Clients
    /\ DOMAIN transaction_status \subseteq Clients
    /\ panicked \in BOOLEAN
    /\ processed \in 0..MaxRecords
    /\ pc \in {"read", "handled"}
    /\ transaction \in Transaction
    /\ resolved \subseteq Clients \X TxIds
    /\ used_tx \subseteq TxIds
    /\ DOMAIN net_settled = Clients
    /\ DOMAIN charged_back = Clients

\* ---- vocabulary of the properties -----------------------------------------
\* handle_record has just returned for the row `transaction`
Handled == pc = "handled"
Client == transaction.client
TxId == transaction.id
Amount == transaction.amount
Kind == to_lowercase(transaction.trans_type)

\* the row passed the validator of handle_record
PassedValidator == is_valid_record(prev_accounts, transaction)

\* the row's client had an account / a registry entry for the row's tx id
HadAccount == Has(prev_accounts, Client)
HadEntry == Has(prev_status, Client) /\ Has(prev_status[Client], TxId)
PrevAccount == prev_accounts[Client]
PrevEntry == prev_status[Client][TxId]
HasEntry == Has(transaction_status, Client) /\ Has(transaction_status[Client], TxId)

\* the row changed neither map
NothingChanged == accounts = prev_accounts /\ transaction_status = prev_status

\* ---- C1 ---------------------------------------------------------------------
\* C1: in every reachable state every account of the ledger has
\* total = available + held.
C1_TotalIsAvailablePlusHeld ==
    \A c \in DOMAIN accounts :
        accounts[c].total = accounts[c].available + accounts[c].held

\* a chargeback has just locked an account that still has available funds
C1_Witness ==
    /\ Handled /\ Kind = "chargeback"
    /\ HadAccount /\ ~PrevAccount.locked
    /\ accounts[Client].locked
    /\ accounts[Client].available # 0
    /\ PrevAccount.held # 0

\* ---- C2 ---------------------------------------------------------------------
\* C2: a row of any kind for a client whose account is locked leaves that
\* client's account and registry as they were, and a locked account of any
\* client stays locked.
C2_LockedIsFinal ==
    Handled =>
        /\ (HadAccount /\ PrevAccount.locked) =>
               /\ Has(accounts, Client) /\ accounts[Client] = PrevAccount
               /\ SubMap(transaction_status, Client) = SubMap(prev_status, Client)
        /\ \A c \in DOMAIN prev_accounts :
               prev_accounts[c].locked => Has(accounts, c) /\ accounts[c].locked

\* a nonzero deposit with valid ids has just been fed to a locked account
C2_Witness ==
    /\ Handled /\ Kind = "deposit"
    /\ HadAccount /\ PrevAccount.locked
    /\ TxId > 0 /\ Amount # 0

\* ---- C3 ---------------------------------------------------------------------
\* C3 as stated: a validated withdrawal of amount A on an existing account
\* succeeds iff available - A > 0, and otherwise changes nothing.
C3_StrictWithdrawal ==
    (Handled /\ Kind = "withdrawal" /\ PassedValidator /\ HadAccount) =>
        IF PrevAccount.available - Amount > 0
        THEN /\ accounts[Client].available = PrevAccount.available - Amount
             /\ accounts[Client].total = PrevAccount.total - Amount
        ELSE NothingChanged

\* C3 amended: a validated withdrawal of amount A on an existing account
\* succeeds iff available - A >= 0: then available and total each decrease by
\* exactly A, otherwise nothing changes.
C3_WithdrawalIffCovered ==
    (Handled /\ Kind = "withdrawal" /\ PassedValidator /\ HadAccount) =>
        IF PrevAccount.available - Amount >= 0
        THEN /\ accounts[Client].available = PrevAccount.available - Amount
             /\ accounts[Client].total = PrevAccount.total - Amount
        ELSE NothingChanged

\* a withdrawal of exactly the available balance has just been applied
C3_Witness ==
    /\ Handled /\ Kind = "withdrawal" /\ PassedValidator /\ HadAccount
    /\ Amount > 0
    /\ PrevAccount.available = Amount
    /\ accounts[Client].available = 0

\* ---- C4 ---------------------------------------------------------------------
\* handle_record has called handle_withdrawal for the row
CalledWithdrawal == Kind = "withdrawal" /\ PassedValidator /\ ~is_zero_amount(Amount)

\* C4: handle_withdrawal on an existing account with amount <= available
\* reduces available and total by the amount, keeps held, leaves locked false
\* and records {amount, deposit: false, dispute: false} under (client, tx id).
C4_WithdrawalApplied ==
    (Handled /\ CalledWithdrawal /\ HadAccount /\ Amount <= PrevAccount.available) =>
        /\ accounts[Client] = AccountInfo(PrevAccount.available - Amount,
                                          PrevAccount.held,
                                          PrevAccount.total - Amount,
                                          FALSE)
        /\ HasEntry
        /\ transaction_status[Client][TxId] = TransactionStatus(Amount, FALSE, FALSE)
        /\ ~panicked

\* a withdrawal smaller than the balance has just been applied while funds are held
C4_Witness ==
    /\ Handled /\ CalledWithdrawal /\ HadAccount
    /\ Amount > 0 /\ Amount <= PrevAccount.available
    /\ PrevAccount.held # 0
    /\ accounts[Client].available = PrevAccount.available - Amount

\* ---- C5 ---------------------------------------------------------------------
\* C5: a withdrawal for a client without account creates neither an account
\* nor a registry sub-map; a withdrawal of more than available leaves the
\* account as it was and adds no registry entry; both change nothing at all.
C5_FailedWithdrawalChangesNothing ==
    (Handled /\ Kind = "withdrawal") =>
        /\ ~HadAccount =>
               /\ ~Has(accounts, Client)
               /\ ~Has(transaction_status, Client)
               /\ NothingChanged
        /\ (HadAccount /\ Amount > PrevAccount.available) =>
               /\ accounts[Client] = PrevAccount
               /\ HasEntry <=> HadEntry
               /\ NothingChanged
        /\ ~panicked

\* a validated withdrawal of more than the available balance has just been dropped
C5_Witness ==
    /\ Handled /\ CalledWithdrawal /\ HadAccount
    /\ Amount > 0 /\ Amount > PrevAccount.available
    /\ ~HadEntry /\ ~HasEntry
    /\ accounts[Client] = PrevAccount

\* ---- C6 ---------------------------------------------------------------------
\* handle_record has called handle_deposit for the row
CalledDeposit == Kind = "deposit" /\ PassedValidator /\ ~is_zero_amount(Amount)

\* C6: an applied deposit of amount A creates the account {A, 0, A, false} for
\* a client without account, adds A to available and total of an existing
\* account and keeps its held, and in both cases leaves the registry entry
\* {A, deposit: true, dispute: false} under (client, tx id).
C6_DepositApplied ==
    (Handled /\ CalledDeposit) =>
        /\ Has(accounts, Client)
        /\ ~HadAccount => accounts[Client] = AccountInfo(Amount, 0, Amount, FALSE)
        /\ HadAccount =>
               /\ accounts[Client].available = PrevAccount.available + Amount
               /\ accounts[Client].total = PrevAccount.total + Amount
               /\ accounts[Client].held = PrevAccount.held
        /\ HasEntry
        /\ transaction_status[Client][TxId] = TransactionStatus(Amount, TRUE, FALSE)

\* a deposit has just been applied to an existing account that has funds held
C6_Witness ==
    /\ Handled /\ CalledDeposit /\ HadAccount
    /\ PrevAccount.held # 0
    /\ accounts[Client].available = PrevAccount.available + Amount

\* ---- C7 ---------------------------------------------------------------------
\* the balance a client had before the row; 0 without account
PrevAvailable == IF HadAccount THEN PrevAccount.available ELSE 0
PrevTotal == IF HadAccount THEN PrevAccount.total ELSE 0

\* the row's deposit took effect: account present, available and total moved
\* by the amount, entry {amount, true, false} recorded
DepositTookEffect ==
    /\ Has(accounts, Client)
    /\ accounts[Client].available = PrevAvailable + Amount
    /\ accounts[Client].total = PrevTotal + Amount
    /\ HasEntry
    /\ transaction_status[Client][TxId] = TransactionStatus(Amount, TRUE, FALSE)
    /\ ~panicked

\* C7 as stated: a deposit that passes the validator takes effect whatever its
\* amount, zero included.
C7_DepositNeverFails ==
    (Handled /\ Kind = "deposit" /\ PassedValidator) => DepositTookEffect

\* C7 amended: a deposit that passes the validator takes effect whenever its
\* amount is not zero, positive or negative; a deposit of amount 0 is dropped
\* and changes nothing.
C7_NonzeroDepositNeverFails ==
    (Handled /\ Kind = "deposit" /\ PassedValidator) =>
        IF Amount # 0 THEN DepositTookEffect ELSE NothingChanged /\ ~panicked

\* a negative deposit has just created an account
C7_Witness ==
    /\ Handled /\ Kind = "deposit" /\ PassedValidator
    /\ Amount < 0
    /\ ~HadAccount
    /\ Has(accounts, Client) /\ accounts[Client].available = Amount

\* ---- C8 ---------------------------------------------------------------------
\* C8: a dispute on an entry of the client that exists and is not disputed, of
\* amount D, moves D from available to held, keeps total and locked = false,
\* and rewrites the entry with the same amount and deposit flag, dispute = true.
C8_DisputeMovesFunds ==
    (Handled /\ Kind = "dispute" /\ HadEntry /\ ~PrevEntry.dispute) =>
        /\ HadAccount
        /\ accounts[Client] = AccountInfo(PrevAccount.available - PrevEntry.amount,
                                          PrevAccount.held + PrevEntry.amount,
                                          PrevAccount.total,
                                          FALSE)
        /\ HasEntry
        /\ transaction_status[Client][TxId] =
               TransactionStatus(PrevEntry.amount, PrevEntry.deposit, TRUE)

\* a withdrawal has just been disputed
C8_Witness ==
    /\ Handled /\ Kind = "dispute" /\ HadEntry /\ ~PrevEntry.dispute
    /\ ~PrevEntry.deposit /\ PrevEntry.amount > 0
    /\ accounts[Client].held = PrevAccount.held + PrevEntry.amount

\* ---- C9 ---------------------------------------------------------------------
\* C9: a dispute row for an entry that is still disputed changes neither the
\* ledger nor the registry.
C9_DisputeIdempotent ==
    (Handled /\ Kind = "dispute" /\ HadEntry /\ PrevEntry.dispute) => NothingChanged

\* a second dispute has just been fed while the first one still holds the funds
C9_Witness ==
    /\ Handled /\ Kind = "dispute" /\ HadEntry /\ PrevEntry.dispute
    /\ PrevEntry.amount # 0
    /\ PrevAccount.held = PrevEntry.amount
    /\ ~PrevAccount.locked

\* ---- C10 --------------------------------------------------------------------
\* C10: a resolve on an entry of the client that exists and is disputed, of
\* amount D, moves D from held to available and keeps total and locked =
\* false; a resolve on an entry that is absent or not disputed changes nothing.
C10_ResolveMovesFunds ==
    (Handled /\ Kind = "resolve") =>
        IF HadEntry /\ PrevEntry.dispute
        THEN /\ HadAccount
             /\ accounts[Client] = AccountInfo(PrevAccount.available + PrevEntry.amount,
                                               PrevAccount.held - PrevEntry.amount,
                                               PrevAccount.total,
                                               FALSE)
        ELSE NothingChanged

\* a disputed entry has just been resolved
C10_Witness ==
    /\ Handled /\ Kind = "resolve" /\ HadEntry /\ PrevEntry.dispute
    /\ PrevEntry.amount # 0
    /\ PrevAccount.held = PrevEntry.amount
    /\ accounts[Client].available = PrevAccount.available + PrevEntry.amount

\* ---- C11 --------------------------------------------------------------------
\* the row's (client, tx id) had been disputed and then resolved before the row
WasResolved == <<Client, TxId>> \in prev_resolved

\* C11: a resolve row for a transaction that has already been disputed and
\* resolved leaves the account's available, held and total as they were.
C11_ResolveTwiceNoEffect ==
    (Handled /\ Kind = "resolve" /\ WasResolved /\ HadAccount) =>
        /\ Has(accounts, Client)
        /\ accounts[Client].available = PrevAccount.available
        /\ accounts[Client].held = PrevAccount.held
        /\ accounts[Client].total = PrevAccount.total

C13_ChargebackLocks ==
    (Handled /\ Kind = "chargeback") =>
        /\ (HadEntry /\ PrevEntry.dispute /\ PrevEntry.deposit) =>
               /\ HadAccount
               /\ accounts[Client] = AccountInfo(PrevAccount.available,
                                                 PrevAccount.held - PrevEntry.amount,
                                                 PrevAccount.total - PrevEntry.amount,
                                                 TRUE)
               /\ ~Has(transaction_status, Client)
               /\ ~panicked
        /\ (HadAccount /\ PrevAccount.locked) =>
               /\ NothingChanged
               /\ ~Has(transaction_status, Client)

\* a disputed deposit has just been charged back on an account with other funds
C13_Witness ==
    /\ Handled /\ Kind = "chargeback"
    /\ HadEntry /\ PrevEntry.dispute /\ PrevEntry.deposit
    /\ PrevEntry.amount > 0
    /\ PrevAccount.available > 0
    /\ accounts[Client].locked
    /\ accounts[Client].held = PrevAccount.held - PrevEntry.amount

\* ---- C14 --------------------------------------------------------------------
\* C14: a chargeback row whose target entry is a withdrawal changes nothing,
\* disputed or not; and an account is locked by a row only if that row is a
\* chargeback of the account's client on an entry that is a disputed deposit.
C14_WithdrawalsNeverChargedBack ==
    Handled =>
        /\ (Kind = "chargeback" /\ HadEntry /\ ~PrevEntry.deposit) => NothingChanged
        /\ \A c \in DOMAIN accounts :
               (accounts[c].locked /\ ~(Has(prev_accounts, c) /\ prev_accounts[c].locked)) =>
                   /\ c = Client
                   /\ Kind = "chargeback"
                   /\ HadEntry /\ PrevEntry.deposit /\ PrevEntry.dispute

\* a chargeback row has just been fed for a disputed withdrawal
C14_Witness ==
    /\ Handled /\ Kind = "chargeback"
    /\ HadEntry /\ ~PrevEntry.deposit /\ PrevEntry.dispute
    /\ PrevEntry.amount > 0
    /\ PrevAccount.held = PrevEntry.amount
    /\ ~accounts[Client].locked

\* ---- C15 --------------------------------------------------------------------
\* the pairs <<client, tx id>> that have a registry entry
Keys(status) == {q \in Clients \X TxIds : Has(status, q[1]) /\ Has(status[q[1]], q[2])}

\* C15: a row with client 0 or tx id 0, of any kind, changes neither map, and
\* no account, registry sub-map or registry entry is ever keyed by client 0 or
\* tx id 0.
C15_ZeroIdsDropped ==
    /\ Handled /\ (Client = 0 \/ TxId = 0) => NothingChanged /\ ~panicked
    /\ ~Has(accounts, 0)
    /\ ~Has(transaction_status, 0)
    /\ \A q \in Keys(transaction_status) : q[1] # 0 /\ q[2] # 0

\* a nonzero deposit with tx id 0 has just been fed to an existing unlocked account
C15_Witness ==
    /\ Handled /\ Kind = "deposit" /\ Amount # 0
    /\ Client > 0 /\ TxId = 0
    /\ HadAccount /\ ~PrevAccount.locked
    /\ accounts[Client] = PrevAccount

\* ---- C16 --------------------------------------------------------------------
\* the row is a deposit or withdrawal that was applied: valid ids, account not
\* locked, nonzero amount, and the account credited or debited by the amount
AppliedDeposit ==
    /\ Kind = "deposit" /\ Client > 0 /\ TxId > 0 /\ Amount # 0
    /\ ~(HadAccount /\ PrevAccount.locked)
    /\ Has(accounts, Client)
    /\ accounts[Client].available = PrevAvailable + Amount

AppliedWithdrawal ==
    /\ Kind = "withdrawal" /\ Client > 0 /\ TxId > 0 /\ Amount # 0
    /\ HadAccount /\ ~PrevAccount.locked
    /\ accounts[Client].available = PrevAccount.available - Amount

\* C16: a row adds a registry key only if it is an applied deposit or an
\* applied withdrawal, and then the key is the row's (client, tx id); a
\* dispute, resolve or chargeback row never adds a key.
C16_KeysOnlyFromSettlements ==
    Handled =>
        /\ (Keys(transaction_status) \ Keys(prev_status)) \subseteq {<<Client, TxId>>}
        /\ (Keys(transaction_status) \ Keys(prev_status)) # {} =>
               AppliedDeposit \/ AppliedWithdrawal
        /\ Kind \in {"dispute", "resolve", "chargeback"} =>
               Keys(transaction_status) \subseteq Keys(prev_status)

\* an applied dispute has just rewritten an entry without adding a key
C16_Witness ==
    /\ Handled /\ Kind = "dispute"
    /\ HadEntry /\ ~PrevEntry.dispute
    /\ transaction_status # prev_status
    /\ Keys(transaction_status) = Keys(prev_status)
    /\ Cardinality(Keys(transaction_status)) > 1

\* ---- C17 --------------------------------------------------------------------
\* the row is a deposit that handle_record applies: valid ids, nonzero amount,
\* account absent or not locked
DepositToApply ==
    /\ Kind = "deposit" /\ Client > 0 /\ TxId > 0 /\ Amount # 0
    /\ ~(HadAccount /\ PrevAccount.locked)

\* C17: the clients with an account after a row are those with an account
\* before it, plus the row's client if the row is a deposit that is applied:
\* only a deposit creates an account and no row removes one.
C17_AccountsOnlyFromDeposits ==
    Handled =>
        DOMAIN accounts = DOMAIN prev_accounts \cup (IF DepositToApply THEN {Client} ELSE {})

\* a chargeback has just locked an account, which stays in the ledger
C17_Witness ==
    /\ Handled /\ Kind = "chargeback"
    /\ HadAccount /\ ~PrevAccount.locked
    /\ Has(accounts, Client) /\ accounts[Client].locked
    /\ ~Has(transaction_status, Client)

\* ---- C18 --------------------------------------------------------------------
\* the part of a map that belongs to the clients of S
Restrict(m, S) == [k \in (DOMAIN m) \cap S |-> m[k]]

\* what handle_record does to the row when it is given the row's client alone
AloneOutcome ==
    handle_record(Restrict(prev_accounts, {Client}), Restrict(prev_status, {Client}), transaction)

\* C18: a row leaves the account and the registry of every other client as they
\* were, and what it does to its own client is what handle_record does when the
\* maps hold that client alone; hence each client's final account and registry
\* are those of its own rows applied in their order.
C18_ClientsIndependent ==
    Handled =>
        /\ Restrict(accounts, Clients \ {Client}) = Restrict(prev_accounts, Clients \ {Client})
        /\ Restrict(transaction_status, Clients \ {Client}) = Restrict(prev_status, Clients \ {Client})
        /\ Restrict(accounts, {Client}) = AloneOutcome.accounts
        /\ Restrict(transaction_status, {Client}) = AloneOutcome.transaction_status
        /\ panicked = AloneOutcome.panicked

\* a chargeback has just locked one client and removed its sub-map while
\* another client has an account with funds and a registry sub-map
C18_Witness ==
    /\ Handled /\ Kind = "chargeback"
    /\ HadAccount /\ ~PrevAccount.locked /\ accounts[Client].locked
    /\ \E k \in Clients \ {Client} :
           /\ Has(accounts, k) /\ accounts[k].available # 0
           /\ Has(transaction_status, k)

\* ---- C19 --------------------------------------------------------------------
\* C19: a dispute, resolve or chargeback row whose tx id has no entry under the
\* row's client changes neither map, also when another client has an entry
\* under that tx id; such an entry of another client is never touched.
C19_UnknownTxIgnored ==
    (Handled /\ Kind \in {"dispute", "resolve", "chargeback"}) =>
        /\ ~HadEntry => NothingChanged /\ ~panicked
        /\ \A k \in Clients \ {Client} :
               (Has(prev_status, k) /\ Has(prev_status[k], TxId)) =>
                   /\ Has(transaction_status, k) /\ Has(transaction_status[k], TxId)
                   /\ transaction_status[k][TxId] = prev_status[k][TxId]

\* a dispute has just been fed for a tx id that only another client has, to a
\* client that has an account and entries of its own
C19_Witness ==
    /\ Handled /\ Kind = "dispute"
    /\ ~HadEntry
    /\ HadAccount /\ ~PrevAccount.locked /\ Has(prev_status, Client)
    /\ \E k \in Clients \ {Client} :
           Has(prev_status, k) /\ Has(prev_status[k], TxId) /\ ~prev_status[k][TxId].dispute

\* ---- C20 --------------------------------------------------------------------
\* C20: a chargeback row for a transaction that has been disputed and then
\* resolved changes neither map and does not lock the account.
C20_NoChargebackAfterResolve ==
    (Handled /\ Kind = "chargeback" /\ WasResolved) =>
        /\ NothingChanged
        /\ HadAccount => ~accounts[Client].locked

\* ---- C21 --------------------------------------------------------------------
\* C21: no handler panics on an unwrap: every account that is not locked has a
\* registry sub-map for its client (handle_withdrawal's get_mut(client).unwrap())
\* and every client with a registry sub-map has an account (accounts.get(client)
\* .unwrap() of dispute, resolve and chargeback).
C21_NoUnwrapPanics ==
    /\ ~panicked
    /\ \A c \in DOMAIN accounts : ~accounts[c].locked => Has(transaction_status, c)
    /\ \A c \in DOMAIN transaction_status : Has(accounts, c)

\* a withdrawal has just been applied, through both unwraps of handle_withdrawal
C21_Witness ==
    /\ Handled /\ CalledWithdrawal /\ HadAccount
    /\ Amount > 0
    /\ accounts[Client].available = PrevAccount.available - Amount
    /\ HasEntry /\ ~transaction_status[Client][TxId].deposit
    /\ ~panicked

\* ---- C22 --------------------------------------------------------------------
\* the sum of the amounts of the entries of `entries` under the tx ids of S
RECURSIVE SumOfAmounts(_, _)
SumOfAmounts(entries, S) ==
    IF S = {} THEN 0
    ELSE LET t == CHOOSE x \in S : TRUE
         IN entries[t].amount + SumOfAmounts(entries, S \ {t})

\* the tx ids of the client that have been disputed and not resolved since
OpenDisputes(client) ==
    IF ~Has(transaction_status, client) THEN {}
    ELSE {t \in DOMAIN transaction_status[client] :
            transaction_status[client][t].dispute /\ <<client, t>> \notin resolved}

HeldInDispute(client) ==
    IF ~Has(transaction_status, client) THEN 0
    ELSE SumOfAmounts(transaction_status[client], OpenDisputes(client))

\* C22: over a file whose deposits and withdrawals have positive amounts and
\* fresh tx ids, held is never negative, and the held of an account that is
\* not locked is the sum of the amounts of the client's transactions that
\* have been disputed and not yet resolved.
C22_HeldIsOpenDisputes ==
    \A c \in DOMAIN accounts :
        /\ accounts[c].held >= 0
        /\ ~accounts[c].locked => accounts[c].held = HeldInDispute(c)

\* ---- C23 --------------------------------------------------------------------
\* what total has to be: the applied deposits minus the applied withdrawals,
\* minus the charged-back amount once the account is locked
SettledTotal(client) ==
    net_settled[client] - (IF accounts[client].locked THEN charged_back[client] ELSE 0)

\* C23: balance conservation: the total of every account is the sum of the
\* amounts of the client's applied deposits minus the sum of the amounts of
\* its applied withdrawals, minus the charged-back amount if the account is
\* locked; a dispute or a resolve never changes total.
C23_BalanceConservation ==
    /\ \A c \in DOMAIN accounts : accounts[c].total = SettledTotal(c)
    /\ (Handled /\ Kind \in {"dispute", "resolve"} /\ HadAccount) =>
           /\ Has(accounts, Client)
           /\ accounts[Client].total = PrevAccount.total

\* a resolve has just moved a disputed amount back and total is still what
\* the deposits and withdrawals of the client have settled
C23_Witness ==
    /\ Handled /\ Kind = "resolve" /\ PassedValidator
    /\ HadAccount /\ HadEntry /\ PrevEntry.dispute
    /\ PrevEntry.amount # 0
    /\ accounts[Client].available = PrevAccount.available + PrevEntry.amount
    /\ accounts[Client].total = net_settled[Client]
    /\ net_settled[Client] # 0
====
